---- MODULE Spec2Model ----
(***************************************************************************)
(* LocalCollection (qdrant_client/local/local_collection.py): the in-     *)
(* process vector collection.  The state is the object's fields; every    *)
(* public method is one action, computed by the operators below, which    *)
(* follow the method bodies statement by statement.                        *)
(*                                                                         *)
(* Conventions.                                                            *)
(*  - Internal indices are 0-based as in the code; sequence position is    *)
(*    idx + 1.                                                             *)
(*  - A point id is <<"int", n>> or <<"str", s>>; a string is modelled by  *)
(*    its rank s >= 1 in lexicographic order, the empty string by rank 0.  *)
(*  - A payload is None or a dict; a dict is a total function on Keys with *)
(*    Absent marking a key that is not in the dict.                        *)
(*  - A vector struct is a bare list [kind "list", v] or a dict in         *)
(*    insertion order [kind "dict", items], items a sequence of [name, v]  *)
(*    with distinct names; [kind "None"] is Python's None.                 *)
(*  - Vector components are integers; the float32 cast is modelled on them *)
(*    (integers above 2^24 are not all representable).                     *)
(***************************************************************************)
EXTENDS Integers, Sequences, FiniteSets, TLC

VARIABLES
    config,     \* self.config.vectors: sequence of [name, size, distance]
    vectors,    \* self.vectors: name -> matrix [dim, dtype, rows]
    payload,    \* self.payload: list of payloads
    share,      \* object identity of the payload dicts: share[i] is the least
                \* position holding the same dict object as position i
    deleted,    \* self.deleted
    ids,        \* self.ids: external id -> internal index
    ids_inv,    \* self.ids_inv
    storage,    \* self.storage: [on, pts], on = (storage is not None), pts =
                \* the points held by the CollectionPersistence store
    held,       \* a models.Filter object the caller holds and passes to
                \* recommend, which appends to its must_not in place
    ret         \* outcome of the last call: [op, status, k, v]

vars == <<config, vectors, payload, share, deleted, ids, ids_inv,
          storage, held, ret>>

---------------------------------------------------------------------------
(* Values *)

DEFAULT_VECTOR_NAME == ""

Keys == {"k", "v"}
Absent == 0
EmptyDict == [key \in Keys |-> Absent]
None == [isNone |-> TRUE, d |-> EmptyDict]
Dict(f) == [isNone |-> FALSE, d |-> f]

IntId(n) == <<"int", n>>
StrId(s) == <<"str", s>>

\* Ranks of the strings that parse as a UUID; every other string does not.
UUIDs == {1, 2}
IsUUID(s) == s \in UUIDs

Min(S) == CHOOSE x \in S : \A y \in S : x <= y
Max(S) == CHOOSE x \in S : \A y \in S : x >= y
Abs(x) == IF x < 0 THEN -x ELSE x
Range(s) == {s[i] : i \in DOMAIN s}

ListVector(v) == [kind |-> "list", v |-> v]
DictVector(items) == [kind |-> "dict", items |-> items]
NoVector == [kind |-> "None"]

\* lines 386-389, 407-410, 58-59: a bare list is the dict {"": list}
ToItems(vector) ==
    IF vector.kind = "list"
    THEN <<[name |-> DEFAULT_VECTOR_NAME, v |-> vector.v]>>
    ELSE vector.items

Names(vs) == {vs[i].name : i \in DOMAIN vs}

---------------------------------------------------------------------------
(* numpy *)

TwoPow24 == 2 ^ 24

\* Conversion of an integer to float32 (round to nearest, ties to even),
\* for |x| < 2^25: above 2^24 only the even integers are representable.
Float32(x) ==
    IF Abs(x) <= TwoPow24 \/ x % 2 = 0 THEN x
    ELSE IF (Abs(x) - 1) % 4 = 0
         THEN (IF x < 0 THEN x + 1 ELSE x - 1)
         ELSE (IF x < 0 THEN x - 1 ELSE x + 1)

Cast(dtype, x) == IF dtype = "float32" THEN Float32(x) ELSE x

\* np.zeros((0, size), dtype=np.float32)
Zeros(size) == [dim |-> size, dtype |-> "float32", rows |-> <<>>]

\* A 1-d value of length n can be assigned to a row of length dim when it has
\* that length or length 1 (broadcasting).
CanBroadcast(v, dim) == Len(v) = dim \/ Len(v) = 1

\* m[idx] = v
SetRow(m, idx, v) ==
    [m EXCEPT !.rows[idx + 1] =
        [j \in 1..m.dim |-> Cast(m.dtype, IF Len(v) = 1 THEN v[1] ELSE v[j])]]

\* np.resize(m, (n, m.shape[1])): repeated copies of m, zeros when m is empty
Resize(m, n) ==
    [m EXCEPT !.rows =
        [i \in 1..n |->
            IF Len(m.rows) = 0 THEN [j \in 1..m.dim |-> 0]
            ELSE m.rows[((i - 1) % Len(m.rows)) + 1]]]

\* Canonical form of an object labelling: each position is labelled with the
\* least position carrying the same label.
Normalise(lbl) ==
    [i \in 1..Len(lbl) |-> Min({j \in 1..Len(lbl) : lbl[j] = lbl[i]})]

\* Label of a dict object that no slot of the collection holds yet.
Fresh == 0

---------------------------------------------------------------------------
(* The collection as a value, and results of the helpers *)

Coll ==
    [vectors |-> vectors, payload |-> payload, share |-> share,
     deleted |-> deleted, ids |-> ids, ids_inv |-> ids_inv,
     storage |-> storage]

Ok(c) == [c |-> c, err |-> "ok"]
Raise(c, e) == [c |-> c, err |-> e]

---------------------------------------------------------------------------
(* CollectionPersistence: persist is an upsert by id, delete a removal by   *)
(* id, load emits the points in insertion order.                            *)

StoreIds(st) == {st[i].id : i \in DOMAIN st}
StorePos(st, id) == CHOOSE i \in DOMAIN st : st[i].id = id

persist(st, point) ==
    IF point.id \in StoreIds(st)
    THEN [st EXCEPT ![StorePos(st, point.id)] = point]
    ELSE Append(st, point)

storage_delete(st, id) == SelectSeq(st, LAMBDA p : p.id # id)

---------------------------------------------------------------------------
(* Write engine *)

\* lines 395-396: for vector_name, vector in vectors.items(): ...[idx] = vector
RECURSIVE UpdateRows(_, _, _, _)
UpdateRows(c, vs, idx, i) ==
    IF i > Len(vs) THEN Ok(c)
    ELSE LET m == c.vectors[vs[i].name] IN
         IF idx >= Len(m.rows) THEN Raise(c, "IndexError")
         ELSE IF ~CanBroadcast(vs[i].v, m.dim) THEN Raise(c, "ValueError")
         ELSE UpdateRows([c EXCEPT !.vectors[vs[i].name] = SetRow(m, idx, vs[i].v)],
                         vs, idx, i + 1)

_update_point(c, point) ==
    LET idx == c.ids[point.id]
        c1  == [c EXCEPT !.payload[idx + 1] = point.payload,
                         !.share = Normalise([@ EXCEPT ![idx + 1] = Fresh])]
    IN  IF Names(ToItems(point.vector)) # DOMAIN c.vectors
        THEN Raise(c1, "AssertionError")
        ELSE LET r == UpdateRows(c1, ToItems(point.vector), idx, 1) IN
             IF r.err # "ok" THEN r
             ELSE Ok([r.c EXCEPT !.deleted[idx + 1] = FALSE])

\* lines 416-423: grow the matrix when it has no row idx, write the row, and
\* only then store the (possibly new) matrix back in self.vectors
RECURSIVE AddRows(_, _, _, _)
AddRows(c, vs, idx, i) ==
    IF i > Len(vs) THEN Ok(c)
    ELSE LET m == c.vectors[vs[i].name]
             named_vectors == IF Len(m.rows) <= idx THEN Resize(m, idx * 2 + 1) ELSE m
         IN  IF ~CanBroadcast(vs[i].v, m.dim) THEN Raise(c, "ValueError")
             ELSE AddRows([c EXCEPT !.vectors[vs[i].name] =
                                        SetRow(named_vectors, idx, vs[i].v)],
                          vs, idx, i + 1)

_add_point(c, point) ==
    LET idx == Cardinality(DOMAIN c.ids)
        c1  == [c EXCEPT
                  !.ids = [e \in DOMAIN c.ids \cup {point.id} |->
                              IF e = point.id THEN idx ELSE c.ids[e]],
                  !.ids_inv = Append(@, point.id),
                  !.payload = Append(@, point.payload),
                  !.share = Normalise(Append(@, Fresh)),
                  !.deleted = Append(@, FALSE)]
    IN  IF Names(ToItems(point.vector)) # DOMAIN c.vectors
        THEN Raise(c1, "AssertionError")
        ELSE AddRows(c1, ToItems(point.vector), idx, 1)

\* the membership test of line 433 left out: every point is added
_upsert_point_always_adds(c, point, store_ok) ==
    IF point.id[1] = "str" /\ ~IsUUID(point.id[2])
    THEN Raise(c, "ValueError")
    ELSE LET r == _add_point(c, point)
         IN  IF r.err # "ok" \/ ~c.storage.on THEN r
             ELSE IF ~store_ok THEN Raise(r.c, "PersistenceError")
             ELSE Ok([r.c EXCEPT !.storage.pts = persist(@, point)])

\* lines 438-439 moved before line 433: the adapter is called first
_upsert_point_persists_first(c, point, store_ok) ==
    IF point.id[1] = "str" /\ ~IsUUID(point.id[2])
    THEN Raise(c, "ValueError")
    ELSE IF c.storage.on /\ ~store_ok THEN Raise(c, "PersistenceError")
    ELSE LET r == IF point.id \in DOMAIN c.ids
                  THEN _update_point(c, point)
                  ELSE _add_point(c, point)
         IN  IF r.err # "ok" \/ ~c.storage.on THEN r
             ELSE Ok([r.c EXCEPT !.storage.pts = persist(@, point)])

\* store_ok: whether the adapter's persist call of this point succeeds
_upsert_point(c, point, store_ok) ==
    IF point.id[1] = "str" /\ ~IsUUID(point.id[2])
    THEN Raise(c, "ValueError")
    ELSE LET r == IF point.id \in DOMAIN c.ids
                  THEN _update_point(c, point)
                  ELSE _add_point(c, point)
         IN  IF r.err # "ok" \/ ~c.storage.on THEN r
             ELSE IF ~store_ok THEN Raise(r.c, "PersistenceError")
             ELSE Ok([r.c EXCEPT !.storage.pts = persist(@, point)])

\* lines 443-444; fail_at is the position of the point whose persist call the
\* adapter fails (0: none).  k is the position of the point that raised.
RECURSIVE upsert_list(_, _, _, _)
upsert_list(c, points, fail_at, i) ==
    IF i > Len(points) THEN [c |-> c, err |-> "ok", k |-> 0]
    ELSE LET r == _upsert_point(c, points[i], fail_at # i) IN
         IF r.err # "ok" THEN [c |-> r.c, err |-> r.err, k |-> i]
         ELSE upsert_list(r.c, points, fail_at, i + 1)

\* lines 446-465: the batch form builds one PointStruct per position
BatchItems(batch) ==
    IF batch.vectors.kind = "list"
    THEN <<[name |-> DEFAULT_VECTOR_NAME, rows |-> batch.vectors.rows]>>
    ELSE batch.vectors.items

RECURSIVE upsert_batch(_, _, _, _)
upsert_batch(c, batch, fail_at, i) ==
    LET vs == BatchItems(batch) IN
    IF i > Len(batch.ids) THEN [c |-> c, err |-> "ok", k |-> 0]
    ELSE IF \/ ~batch.payloads.isNone /\ i > Len(batch.payloads.items)
            \/ \E j \in DOMAIN vs : i > Len(vs[j].rows)
         THEN [c |-> c, err |-> "IndexError", k |-> i]
    ELSE LET point ==
                 [id |-> batch.ids[i],
                  payload |-> IF batch.payloads.isNone THEN None
                              ELSE batch.payloads.items[i],
                  vector |-> DictVector([j \in DOMAIN vs |->
                                 [name |-> vs[j].name, v |-> vs[j].rows[i]]])]
             r == _upsert_point(c, point, fail_at # i)
         IN  IF r.err # "ok" THEN [c |-> r.c, err |-> r.err, k |-> i]
             ELSE upsert_batch(r.c, batch, fail_at, i + 1)

\* an upsert that does not read batch.payloads
upsert_without_payloads(c, points, fail_at) ==
    IF points.form = "list" THEN upsert_list(c, points.points, fail_at, 1)
    ELSE upsert_batch(c, [points.batch EXCEPT !.payloads = [isNone |-> TRUE, items |-> <<>>]],
                      fail_at, 1)

\* points is [form "list", points] or [form "Batch", batch]
upsert(c, points, fail_at) ==
    IF points.form = "list" THEN upsert_list(c, points.points, fail_at, 1)
    ELSE IF points.form = "Batch" THEN upsert_batch(c, points.batch, fail_at, 1)
    ELSE [c |-> c, err |-> "ValueError", k |-> 0]

---------------------------------------------------------------------------
(* Payload filter evaluation (qdrant_client.local.payload_filters): a      *)
(* filter is None or [must, must_not], lists of conditions; a condition is *)
(* a key match [type "match", key, value] or [type "has_id", has_id].      *)

NoFilter == [isNone |-> TRUE, must |-> <<>>, must_not |-> <<>>]
Filter(must, must_not) == [isNone |-> FALSE, must |-> must, must_not |-> must_not]

check_condition(cond, pl, point_id) ==
    IF cond.type = "match"
    THEN ~pl.isNone /\ pl.d[cond.key] = cond.value
    ELSE point_id \in cond.has_id

calculate_payload_mask(payloads, payload_filter, ids_inv_) ==
    [i \in 1..Len(payloads) |->
        \/ payload_filter.isNone
        \/ /\ \A j \in DOMAIN payload_filter.must :
                 check_condition(payload_filter.must[j], payloads[i], ids_inv_[i])
           /\ \A j \in DOMAIN payload_filter.must_not :
                 ~check_condition(payload_filter.must_not[j], payloads[i], ids_inv_[i])]

---------------------------------------------------------------------------
(* Selectors *)

\* lines 478-486: ids in the insertion order of self.ids
_filter_to_ids(c, delete_filter) ==
    LET mask == calculate_payload_mask(c.payload, delete_filter, c.ids_inv)
        pos  == SelectSeq([i \in 1..Len(c.ids_inv) |-> i],
                          LAMBDA i : mask[i] /\ ~c.deleted[i])
    IN  [j \in 1..Len(pos) |-> c.ids_inv[pos[j]]]

\* a selector is [kind, points, filter]
_selector_to_ids(c, selector) ==
    IF selector.kind = "list" THEN [ids |-> selector.points, err |-> "ok"]
    ELSE IF selector.kind = "Filter"
         THEN [ids |-> _filter_to_ids(c, selector.filter), err |-> "ok"]
    ELSE IF selector.kind = "PointIdsList"
         THEN [ids |-> selector.points, err |-> "ok"]
    ELSE IF selector.kind = "FilterSelector"
         THEN [ids |-> _filter_to_ids(c, selector.filter), err |-> "ok"]
    ELSE [ids |-> <<>>, err |-> "ValueError"]

---------------------------------------------------------------------------
(* delete *)

\* lines 470-472
RECURSIVE MarkDeleted(_, _, _)
MarkDeleted(c, point_ids, i) ==
    IF i > Len(point_ids) THEN [c |-> c, err |-> "ok", k |-> 0]
    ELSE IF point_ids[i] \notin DOMAIN c.ids
         THEN [c |-> c, err |-> "KeyError", k |-> i]
    ELSE MarkDeleted([c EXCEPT !.deleted[c.ids[point_ids[i]] + 1] = TRUE],
                     point_ids, i + 1)

\* lines 474-476
RECURSIVE StoreDeleteAll(_, _, _, _)
StoreDeleteAll(c, point_ids, fail_at, i) ==
    IF i > Len(point_ids) THEN [c |-> c, err |-> "ok", k |-> 0]
    ELSE IF fail_at = i THEN [c |-> c, err |-> "PersistenceError", k |-> i]
    ELSE StoreDeleteAll([c EXCEPT !.storage.pts = storage_delete(@, point_ids[i])],
                        point_ids, fail_at, i + 1)

_delete_ids(c, point_ids, fail_at) ==
    LET r == MarkDeleted(c, point_ids, 1) IN
    IF r.err # "ok" \/ ~c.storage.on THEN r
    ELSE StoreDeleteAll(r.c, point_ids, fail_at, 1)

\* a delete that also forgets the payload of every tombstoned point
delete_drops_payload(c, selector, fail_at) ==
    LET s == _selector_to_ids(c, selector)
        r == IF s.err # "ok" THEN [c |-> c, err |-> s.err, k |-> 0]
             ELSE _delete_ids(c, s.ids, fail_at)
    IN  [r EXCEPT !.c.payload = [i \in DOMAIN r.c.payload |->
                                    IF r.c.deleted[i] THEN None ELSE r.c.payload[i]]]

\* lines 505-512
delete(c, selector, fail_at) ==
    LET s == _selector_to_ids(c, selector) IN
    IF s.err # "ok" THEN [c |-> c, err |-> s.err, k |-> 0]
    ELSE _delete_ids(c, s.ids, fail_at)

---------------------------------------------------------------------------
(* Projections.  with_payload is [kind "bool", b], [kind "list", keys],    *)
(* [kind "include", keys] or [kind "exclude", keys]; with_vectors is       *)
(* [kind "bool", b] or [kind "list", names].  keys and names are lists.    *)

WithBool(b) == [kind |-> "bool", b |-> b, keys |-> <<>>]
WithList(keys) == [kind |-> "list", b |-> TRUE, keys |-> keys]
Include(keys) == [kind |-> "include", b |-> TRUE, keys |-> keys]
Exclude(keys) == [kind |-> "exclude", b |-> TRUE, keys |-> keys]

\* Python truth value of the descriptor: False and the empty list are falsy
Truthy(w) ==
    IF w.kind = "bool" THEN w.b
    ELSE IF w.kind = "list" THEN Len(w.keys) > 0
    ELSE TRUE

Val(v) == [val |-> v, err |-> "ok"]
Err(e) == [val |-> None, err |-> e]

_get_payload(c, idx, with_payload) ==
    LET pl == c.payload[idx + 1] IN
    IF ~Truthy(with_payload) THEN Val(None)
    ELSE IF with_payload.kind = "bool" THEN Val(pl)
    ELSE IF with_payload.kind \in {"list", "include"}
         THEN IF pl.isNone /\ Len(with_payload.keys) > 0 THEN Err("TypeError")
              ELSE Val(Dict([key \in Keys |->
                        IF key \in Range(with_payload.keys) THEN pl.d[key]
                        ELSE Absent]))
    ELSE IF pl.isNone THEN Err("TypeError")
         ELSE Val(Dict([key \in Keys |->
                        IF key \notin Range(with_payload.keys) THEN pl.d[key]
                        ELSE Absent]))

\* a sequence without its repeated entries, first occurrences kept
RECURSIVE Dedup(_)
Dedup(s) ==
    IF Len(s) = 0 THEN <<>>
    ELSE LET front == Dedup(SubSeq(s, 1, Len(s) - 1)) IN
         IF s[Len(s)] \in Range(front) THEN front ELSE Append(front, s[Len(s)])

_get_vectors(c, idx, with_vectors) ==
    IF ~Truthy(with_vectors) THEN [val |-> NoVector, err |-> "ok"]
    ELSE IF \E i \in DOMAIN config : idx >= Len(c.vectors[config[i].name].rows)
         THEN [val |-> NoVector, err |-> "IndexError"]
    ELSE LET all == [i \in DOMAIN config |->
                        [name |-> config[i].name,
                         v |-> c.vectors[config[i].name].rows[idx + 1]]]
             names == Dedup(with_vectors.keys)
         IN  IF with_vectors.kind = "list" /\ ~(Range(names) \subseteq DOMAIN c.vectors)
             THEN [val |-> NoVector, err |-> "KeyError"]
             ELSE LET items == IF with_vectors.kind = "list"
                               THEN [i \in DOMAIN names |->
                                       [name |-> names[i],
                                        v |-> c.vectors[names[i]].rows[idx + 1]]]
                               ELSE all
                  IN  IF Len(items) = 1 /\ items[1].name = DEFAULT_VECTOR_NAME
                      THEN [val |-> ListVector(items[1].v), err |-> "ok"]
                      ELSE [val |-> DictVector(items), err |-> "ok"]

---------------------------------------------------------------------------
(* Payload mutations *)

_persist_by_id(c, point_id, store_ok) ==
    IF ~c.storage.on THEN Ok(c)
    ELSE LET idx == c.ids[point_id]
             pl  == _get_payload(c, idx, WithBool(TRUE))
             vec == _get_vectors(c, idx, WithBool(TRUE))
         IN  IF vec.err # "ok" THEN Raise(c, vec.err)
             ELSE IF ~store_ok THEN Raise(c, "PersistenceError")
             ELSE Ok([c EXCEPT !.storage.pts =
                         persist(@, [id |-> point_id, payload |-> pl.val,
                                     vector |-> vec.val])])

\* {**(old or {}), **new}
Merge(old, new) == Dict([key \in Keys |->
                      IF new.d[key] # Absent THEN new.d[key] ELSE old.d[key]])

\* for key in keys: if key in d: d.pop(key)
Pop(old, keys) == Dict([key \in Keys |->
                      IF key \in Range(keys) THEN Absent ELSE old.d[key]])

\* the dict object at position pos mutated in place: every slot holding that
\* object sees the new content
InPlace(c, pos, new) ==
    [c EXCEPT !.payload = [j \in 1..Len(c.payload) |->
                              IF c.share[j] = c.share[pos] THEN new
                              ELSE c.payload[j]]]

\* the caller's dict object while overwrite_payload runs
Arg == -1

\* One iteration of the loop of set_payload / overwrite_payload /
\* delete_payload / clear_payload, before _persist_by_id
MutateOne(c, op, arg, idx) ==
    LET pos == idx + 1 IN
    IF op = "set_payload"
    THEN Ok([c EXCEPT !.payload[pos] = Merge(@, arg), !.share[pos] = Fresh])
    ELSE IF op = "overwrite_payload"
    THEN Ok([c EXCEPT !.payload[pos] = arg, !.share[pos] = Arg])
    ELSE IF op = "delete_payload"
    THEN IF Len(arg) > 0 /\ c.payload[pos].isNone THEN Raise(c, "TypeError")
         ELSE IF Len(arg) = 0 THEN Ok(c)
         ELSE Ok(InPlace(c, pos, Pop(c.payload[pos], arg)))
    ELSE Ok([c EXCEPT !.payload[pos] = Dict(EmptyDict), !.share[pos] = Fresh])

RECURSIVE MutateEach(_, _, _, _, _, _)
MutateEach(c, op, arg, point_ids, fail_at, i) ==
    IF i > Len(point_ids) THEN [c |-> c, err |-> "ok", k |-> 0]
    ELSE IF point_ids[i] \notin DOMAIN c.ids
         THEN [c |-> c, err |-> "KeyError", k |-> i]
    ELSE LET m  == MutateOne(c, op, arg, c.ids[point_ids[i]])
             m1 == IF op = "overwrite_payload" THEN m.c
                   ELSE [m.c EXCEPT !.share = Normalise(@)]
         IN  IF m.err # "ok" THEN [c |-> m.c, err |-> m.err, k |-> i]
             ELSE LET r == _persist_by_id(m1, point_ids[i], fail_at # i) IN
                  IF r.err # "ok" THEN [c |-> r.c, err |-> r.err, k |-> i]
                  ELSE MutateEach(r.c, op, arg, point_ids, fail_at, i + 1)

\* set_payload, overwrite_payload, delete_payload, clear_payload
mutate_payload(c, op, arg, selector, fail_at) ==
    LET s == _selector_to_ids(c, selector) IN
    IF s.err # "ok" THEN [c |-> c, err |-> s.err, k |-> 0]
    ELSE LET r == MutateEach(c, op, arg, s.ids, fail_at, 1) IN
         [r EXCEPT !.c.share = Normalise(@)]

---------------------------------------------------------------------------
(* Construction and load *)

\* lines 35-42: the fields before load()
Empty(cfg, st) ==
    [vectors |-> [n \in {cfg[i].name : i \in DOMAIN cfg} |->
                     Zeros(cfg[CHOOSE i \in DOMAIN cfg : cfg[i].name = n].size)],
     payload |-> <<>>, share |-> <<>>, deleted |-> <<>>,
     ids |-> [e \in {} |-> 0], ids_inv |-> <<>>, storage |-> st]

\* the rows collected under a name, in store order (lines 61-62)
RowsOf(pts, name) ==
    LET has == SelectSeq([i \in 1..Len(pts) |-> i],
                   LAMBDA i : name \in Names(ToItems(pts[i].vector)))
    IN  [j \in 1..Len(has) |->
            LET items == ToItems(pts[has[j]].vector) IN
            items[CHOOSE x \in DOMAIN items : items[x].name = name].v]

Homogeneous(rows) == \A i, j \in DOMAIN rows : Len(rows[i]) = Len(rows[j])

\* np.array(rows) of equally long rows of Python floats
Array(rows) == [dim |-> Len(rows[1]), dtype |-> "float64", rows |-> rows]

\* lines 66-67, over the names in the order the store first shows them
RECURSIVE LoadMatrices(_, _, _, _)
LoadMatrices(c, pts, names, i) ==
    IF i > Len(names) THEN Ok(c)
    ELSE LET rows == RowsOf(pts, names[i]) IN
         IF ~Homogeneous(rows) THEN Raise(c, "ValueError")
         ELSE LoadMatrices(
                  [c EXCEPT !.vectors =
                      [n \in DOMAIN c.vectors \cup {names[i]} |->
                          IF n = names[i] THEN Array(rows) ELSE c.vectors[n]]],
                  pts, names, i + 1)

RECURSIVE SeenNames(_, _)
SeenNames(pts, i) ==
    IF i > Len(pts) THEN <<>>
    ELSE LET items == ToItems(pts[i].vector) IN
         [j \in DOMAIN items |-> items[j].name] \o SeenNames(pts, i + 1)

load(cfg, st) ==
    LET c0 == Empty(cfg, st) IN
    IF ~st.on THEN Ok(c0)
    ELSE LET pts == st.pts
             c1 == [c0 EXCEPT
                      !.ids = [e \in StoreIds(pts) |->
                                  Max({i \in DOMAIN pts : pts[i].id = e}) - 1],
                      !.ids_inv = [i \in DOMAIN pts |-> pts[i].id],
                      !.payload = [i \in DOMAIN pts |-> pts[i].payload],
                      !.share = [i \in DOMAIN pts |-> i]]
             r == LoadMatrices(c1, pts, Dedup(SeenNames(pts, 1)), 1)
         IN  IF r.err # "ok" THEN r
             ELSE Ok([r.c EXCEPT !.deleted = [i \in DOMAIN pts |-> FALSE]])

---------------------------------------------------------------------------
(* Query engine *)

Done(v) == [val |-> v, err |-> "ok"]
Fail(e) == [val |-> <<>>, err |-> e]

\* models.Record / models.ScoredPoint built for index idx (score <<0, 1>> for
\* a Record)
MakeRecord(c, point_id, idx, score, with_payload, with_vectors) ==
    LET pl  == _get_payload(c, idx, with_payload)
        vec == _get_vectors(c, idx, with_vectors)
    IN  IF pl.err # "ok" THEN Fail(pl.err)
        ELSE IF vec.err # "ok" THEN Fail(vec.err)
        ELSE Done([id |-> point_id, score |-> score,
                   payload |-> pl.val, vector |-> vec.val])

NoScore == <<0, 1>>

\* the records of a list of internal positions, or the first error met
RECURSIVE MakeRecords(_, _, _, _, _)
MakeRecords(c, found, with_payload, with_vectors, i) ==
    IF i > Len(found) THEN Done(<<>>)
    ELSE LET rec == MakeRecord(c, c.ids_inv[found[i].pos], found[i].pos - 1,
                               found[i].score, with_payload, with_vectors)
         IN  IF rec.err # "ok" THEN rec
             ELSE LET rest == MakeRecords(c, found, with_payload, with_vectors, i + 1)
                  IN  IF rest.err # "ok" THEN rest
                      ELSE Done(<<rec.val>> \o rest.val)

\* lines 228-243: unknown ids are skipped, one record per occurrence
retrieve(c, point_ids, with_payload, with_vectors) ==
    LET known == SelectSeq(point_ids, LAMBDA e : e \in DOMAIN c.ids)
        found == [i \in DOMAIN known |->
                     [pos |-> c.ids[known[i]] + 1, score |-> NoScore]]
    IN  MakeRecords(c, found, with_payload, with_vectors, 1)

\* lines 373-380
count(c, count_filter) ==
    LET mask == calculate_payload_mask(c.payload, count_filter, c.ids_inv)
    IN  Cardinality({i \in 1..Len(c.payload) : mask[i] /\ ~c.deleted[i]})

\* a key that forgets the kind of the id
_universal_id_forgets_kind(point_id) == <<0, point_id[2]>>

\* lines 319-325
_universal_id(point_id) ==
    IF point_id[1] = "str" THEN <<point_id[2], 0>> ELSE <<0, point_id[2]>>

TupleLess(a, b) == a[1] < b[1] \/ (a[1] = b[1] /\ a[2] < b[2])

Take(s, n) == SubSeq(s, 1, IF n < Len(s) THEN n ELSE Len(s))

\* lines 335-371; offset is [isNone, id]
scroll(c, scroll_filter, limit, offset, with_payload, with_vectors) ==
    IF Cardinality(DOMAIN c.ids) = 0 THEN Done([records |-> <<>>, next |-> [isNone |-> TRUE]])
    ELSE LET sorted_ids == SortSeq(c.ids_inv,
                               LAMBDA a, b : TupleLess(_universal_id(a), _universal_id(b)))
             mask == calculate_payload_mask(c.payload, scroll_filter, c.ids_inv)
             keep == SelectSeq(sorted_ids, LAMBDA e :
                         /\ offset.isNone \/ ~TupleLess(_universal_id(e), _universal_id(offset.id))
                         /\ mask[c.ids[e] + 1] /\ ~c.deleted[c.ids[e] + 1])
             found == [i \in 1..Len(Take(keep, limit + 1)) |->
                         [pos |-> c.ids[keep[i]] + 1, score |-> NoScore]]
             recs == MakeRecords(c, found, with_payload, with_vectors, 1)
         IN  IF recs.err # "ok" THEN recs
             ELSE IF Len(recs.val) > limit
                  THEN Done([records |-> Take(recs.val, limit),
                             next |-> [isNone |-> FALSE, id |-> recs.val[limit + 1].id]])
                  ELSE Done([records |-> recs.val, next |-> [isNone |-> TRUE]])

---------------------------------------------------------------------------
(* Distance kernels (qdrant_client.local.distances).  A score is the       *)
(* fraction <<num, den>>, den > 0; a query is the vector v / den.          *)

RECURSIVE SumTo(_, _)
SumTo(f, n) == IF n = 0 THEN 0 ELSE f[n] + SumTo(f, n - 1)

distance_to_order(distance) ==
    IF distance \in {"Cosine", "Dot"} THEN "BIGGER_IS_BETTER" ELSE "SMALLER_IS_BETTER"

\* Dot: the inner product; Euclid: the squared distance
calculate_distance(v, den, row, distance) ==
    IF distance = "Dot"
    THEN <<SumTo([j \in 1..Len(row) |-> v[j] * row[j]], Len(row)), den>>
    ELSE <<SumTo([j \in 1..Len(row) |-> (v[j] - den * row[j]) * (v[j] - den * row[j])],
                 Len(row)), den * den>>

ScoreLess(a, b) == a[1] * b[2] < b[1] * a[2]

---------------------------------------------------------------------------
(* search and recommend *)

\* lines 72-95; a query vector is [shape, name, v, den]
_resolve_vector_name(query_vector) ==
    IF query_vector.shape \in {"tuple", "NamedVector"}
    THEN [name |-> query_vector.name, err |-> "ok"]
    ELSE IF query_vector.shape \in {"ndarray", "list"}
    THEN [name |-> DEFAULT_VECTOR_NAME, err |-> "ok"]
    ELSE [name |-> DEFAULT_VECTOR_NAME, err |-> "ValueError"]

\* the positions in index order, whatever the scores
argsort_keeps_positions(scores) == [i \in 1..Len(scores) |-> i]

\* np.argsort(scores): positions by ascending score, equal scores in
\* position order
argsort(scores) ==
    SortSeq([i \in 1..Len(scores) |-> i],
            LAMBDA a, b : ScoreLess(scores[a], scores[b])
                          \/ (~ScoreLess(scores[b], scores[a]) /\ a < b))

Reverse(s) == [i \in 1..Len(s) |-> s[Len(s) + 1 - i]]

\* lines 192-218 without the projections: the positions and scores collected
RECURSIVE Walk(_, _, _, _, _, _, _, _)
Walk(order, scores, mask, required_order, score_threshold, cap, i, found) ==
    IF i > Len(order) \/ Len(found) >= cap THEN found
    ELSE IF ~mask[order[i]]
         THEN Walk(order, scores, mask, required_order, score_threshold, cap, i + 1, found)
    ELSE IF /\ ~score_threshold.isNone
            /\ IF required_order = "BIGGER_IS_BETTER"
               THEN ScoreLess(scores[order[i]], <<score_threshold.t, 1>>)
               ELSE ScoreLess(<<score_threshold.t, 1>>, scores[order[i]])
         THEN found
    ELSE Walk(order, scores, mask, required_order, score_threshold, cap, i + 1,
              Append(found, [pos |-> order[i], score |-> scores[order[i]]]))

Distance(name) == config[CHOOSE i \in DOMAIN config : config[i].name = name].distance

\* lines 165-220; score_threshold is [isNone, t]
search(c, query_vector, query_filter, limit, offset, with_payload, with_vectors, score_threshold) ==
    LET payload_mask == calculate_payload_mask(c.payload, query_filter, c.ids_inv)
        q == _resolve_vector_name(query_vector)
    IN  IF q.err # "ok" THEN Fail(q.err)
        ELSE IF q.name \notin DOMAIN c.vectors THEN Fail("ValueError")
        ELSE LET m == c.vectors[q.name]
                 n == IF Len(m.rows) < Len(c.payload) THEN Len(m.rows) ELSE Len(c.payload)
             IN  IF Len(query_vector.v) # m.dim THEN Fail("ValueError")
                 ELSE LET scores == [i \in 1..n |->
                                       calculate_distance(query_vector.v, query_vector.den,
                                                          m.rows[i], Distance(q.name))]
                          mask == [i \in 1..Len(c.payload) |-> payload_mask[i] /\ ~c.deleted[i]]
                          required_order == distance_to_order(Distance(q.name))
                          order == IF required_order = "BIGGER_IS_BETTER"
                                   THEN Reverse(argsort(scores))
                                   ELSE argsort(scores)
                          found == Walk(order, scores, mask, required_order,
                                        score_threshold, limit + offset, 1, <<>>)
                          recs == MakeRecords(c, found, with_payload, with_vectors, 1)
                      IN  IF recs.err # "ok" THEN recs
                          ELSE Done(SubSeq(recs.val, offset + 1, Len(recs.val)))

\* the sum of the rows of the listed points under vector_name
RECURSIVE SumRows(_, _, _, _)
SumRows(c, vector_name, point_ids, i) ==
    LET m == c.vectors[vector_name] IN
    IF i > Len(point_ids) THEN [j \in 1..m.dim |-> 0]
    ELSE LET rest == SumRows(c, vector_name, point_ids, i + 1) IN
         [j \in 1..m.dim |-> m.rows[c.ids[point_ids[i]] + 1][j] + rest[j]]

\* lines 259-307, with lookup_from_collection and lookup_from_vector_name
\* left at None; negative is [isNone, ids], using is [isNone, name].  The
\* query is the vector v / den; filter is the filter handed to search, which
\* is the caller's object with one more must_not entry when a filter was
\* passed.
recommend_query(c, positive, negative, query_filter, using) ==
    LET vector_name == IF using.isNone THEN DEFAULT_VECTOR_NAME ELSE using.name
        neg == IF negative.isNone THEN <<>> ELSE negative.ids
        none == [err |-> "ok", name |-> vector_name, v |-> <<>>, den |-> 1,
                 filter |-> query_filter]
    IN  IF Len(positive) = 0 THEN [none EXCEPT !.err = "ValueError"]
        ELSE IF \E i \in DOMAIN positive : positive[i] \notin DOMAIN c.ids
             THEN [none EXCEPT !.err = "ValueError"]
        ELSE IF vector_name \notin DOMAIN c.vectors THEN [none EXCEPT !.err = "KeyError"]
        ELSE IF \E i \in DOMAIN positive :
                    c.ids[positive[i]] >= Len(c.vectors[vector_name].rows)
             THEN [none EXCEPT !.err = "IndexError"]
        ELSE IF \E i \in DOMAIN neg : neg[i] \notin DOMAIN c.ids
             THEN [none EXCEPT !.err = "ValueError"]
        ELSE IF \E i \in DOMAIN neg : c.ids[neg[i]] >= Len(c.vectors[vector_name].rows)
             THEN [none EXCEPT !.err = "IndexError"]
        ELSE LET dim == c.vectors[vector_name].dim
                 sp == SumRows(c, vector_name, positive, 1)
                 sn == SumRows(c, vector_name, neg, 1)
                 ignore_mentioned_ids == [type |-> "has_id", has_id |-> Range(positive \o neg)]
             IN  [err |-> "ok",
                  name |-> vector_name,
                  v |-> IF Len(neg) > 0
                        THEN [j \in 1..dim |-> 2 * Len(neg) * sp[j] - Len(positive) * sn[j]]
                        ELSE sp,
                  den |-> IF Len(neg) > 0 THEN Len(positive) * Len(neg) ELSE Len(positive),
                  filter |-> IF query_filter.isNone
                             THEN Filter(<<>>, <<ignore_mentioned_ids>>)
                             ELSE [query_filter EXCEPT
                                      !.must_not = Append(@, ignore_mentioned_ids)]]

\* a recommend that hands the caller's filter to search as it is
recommend_keeps_mentioned(c, positive, negative, query_filter, limit, offset, with_payload, with_vectors, score_threshold, using) ==
    LET q == recommend_query(c, positive, negative, query_filter, using) IN
    IF q.err # "ok" THEN Fail(q.err)
    ELSE search(c, [shape |-> "tuple", name |-> q.name, v |-> q.v, den |-> q.den],
                query_filter, limit, offset, with_payload, with_vectors,
                score_threshold)

\* lines 245-317
recommend(c, positive, negative, query_filter, limit, offset, with_payload, with_vectors, score_threshold, using) ==
    LET q == recommend_query(c, positive, negative, query_filter, using) IN
    IF q.err # "ok" THEN Fail(q.err)
    ELSE search(c, [shape |-> "tuple", name |-> q.name, v |-> q.v, den |-> q.den],
                q.filter, limit, offset, with_payload, with_vectors,
                score_threshold)

\* lines 580-616: the fields that depend on the collection
info(c) ==
    [status |-> "GREEN", optimizer_status |-> "OK",
     vectors_count |-> count(c, NoFilter) * Cardinality(DOMAIN c.vectors),
     points_count |-> count(c, NoFilter)]

---------------------------------------------------------------------------
(* The calls as actions *)

SetColl(c) ==
    /\ vectors' = c.vectors
    /\ payload' = c.payload
    /\ share' = c.share
    /\ deleted' = c.deleted
    /\ ids' = c.ids
    /\ ids_inv' = c.ids_inv
    /\ storage' = c.storage

collection == <<vectors, payload, share, deleted, ids, ids_inv, storage>>

\* a LocalCollection object exists: the constructor has returned
Constructed == ret.op = "load" => ret.status = "ok"

Returned(op, r) == [op |-> op, status |-> r.err, k |-> r.k, v |-> <<>>]
Result(op, r) == [op |-> op, status |-> r.err, k |-> 0, v |-> r.val]

Write(op, r) ==
    /\ SetColl(r.c)
    /\ ret' = Returned(op, r)
    /\ UNCHANGED <<config, held>>

Read(op, r) ==
    /\ ret' = Result(op, r)
    /\ UNCHANGED <<config, collection, held>>

Upsert(points, fail_at) ==
    /\ Constructed
    /\ Write("upsert", upsert(Coll, points, fail_at))

Delete(selector, fail_at) ==
    /\ Constructed
    /\ Write("delete", delete(Coll, selector, fail_at))

SetPayload(pl, selector, fail_at) ==
    /\ Constructed
    /\ Write("set_payload", mutate_payload(Coll, "set_payload", pl, selector, fail_at))

OverwritePayload(pl, selector, fail_at) ==
    /\ Constructed
    /\ Write("overwrite_payload",
             mutate_payload(Coll, "overwrite_payload", pl, selector, fail_at))

DeletePayload(keys, selector, fail_at) ==
    /\ Constructed
    /\ Write("delete_payload",
             mutate_payload(Coll, "delete_payload", keys, selector, fail_at))

ClearPayload(selector, fail_at) ==
    /\ Constructed
    /\ Write("clear_payload",
             mutate_payload(Coll, "clear_payload", <<>>, selector, fail_at))

\* the process ends and a new one constructs the collection over the same
\* location (lines 25-48)
Restart ==
    /\ storage.on
    /\ LET r == load(config, storage) IN
       /\ SetColl(r.c)
       /\ ret' = [op |-> "load", status |-> r.err, k |-> 0, v |-> <<>>]
    /\ UNCHANGED <<config, held>>

\* a retrieve that clears the tombstone of the points it looks up
Retrieve_clears_tombstone(point_ids, with_payload, with_vectors) ==
    /\ Constructed
    /\ ret' = Result("retrieve", retrieve(Coll, point_ids, with_payload, with_vectors))
    /\ deleted' = [i \in DOMAIN deleted |->
                      IF ids_inv[i] \in Range(point_ids) THEN FALSE ELSE deleted[i]]
    /\ UNCHANGED <<config, vectors, payload, share, ids, ids_inv, storage, held>>

Retrieve(point_ids, with_payload, with_vectors) ==
    /\ Constructed
    /\ Read("retrieve", retrieve(Coll, point_ids, with_payload, with_vectors))

Count(count_filter) ==
    /\ Constructed
    /\ Read("count", Done(count(Coll, count_filter)))

Scroll(scroll_filter, limit, offset, with_payload, with_vectors) ==
    /\ Constructed
    /\ Read("scroll", scroll(Coll, scroll_filter, limit, offset, with_payload, with_vectors))

Search(query_vector, query_filter, limit, offset, with_payload, with_vectors, score_threshold) ==
    /\ Constructed
    /\ Read("search", search(Coll, query_vector, query_filter, limit, offset,
                             with_payload, with_vectors, score_threshold))

\* pass_held: the call is given the caller's Filter object, else None
Recommend(positive, negative, pass_held, limit, offset, with_payload, with_vectors, score_threshold, using) ==
    LET query_filter == IF pass_held THEN held ELSE NoFilter
        q == recommend_query(Coll, positive, negative, query_filter, using)
    IN  /\ Constructed
        /\ ret' = Result("recommend",
                         recommend(Coll, positive, negative, query_filter, limit,
                                   offset, with_payload, with_vectors,
                                   score_threshold, using))
        /\ held' = IF pass_held /\ q.err = "ok" THEN q.filter ELSE held
        /\ UNCHANGED <<config, collection>>

Info ==
    /\ Constructed
    /\ Read("info", Done(info(Coll)))

---------------------------------------------------------------------------
(* Configurations and inputs *)

\* vector size of the configured names
Dim == 2
\* longest list of points, ids or keys passed to a call
MaxList == 2

ConfigDefault == <<[name |-> DEFAULT_VECTOR_NAME, size |-> Dim, distance |-> "Dot"]>>
ConfigNamed == <<[name |-> "image", size |-> Dim, distance |-> "Dot"],
                 [name |-> "text", size |-> Dim, distance |-> "Euclid"]>>

Unit(a) == [j \in 1..Dim |-> IF j = a THEN 1 ELSE 0]
RowShort == <<5>>
RowLong == [j \in 1..Dim + 1 |-> 1]
RowBig == [j \in 1..Dim |-> IF j = 1 THEN TwoPow24 + 1 ELSE 0]

\* a vector struct with row `first` under the first configured name and row
\* `other` under the others, as a bare list when only "" is configured
VectorFor(cfg, first, other) ==
    IF Len(cfg) = 1 /\ cfg[1].name = DEFAULT_VECTOR_NAME
    THEN ListVector(first)
    ELSE DictVector([i \in DOMAIN cfg |->
                        [name |-> cfg[i].name, v |-> IF i = 1 THEN first ELSE other]])

\* a vector struct whose names are not the configured ones
WrongNames(cfg) ==
    IF Len(cfg) = 1 /\ cfg[1].name = DEFAULT_VECTOR_NAME
    THEN DictVector(<<[name |-> "image", v |-> Unit(1)]>>)
    ELSE ListVector(Unit(1))

K1 == Dict([key \in Keys |-> IF key = "k" THEN 1 ELSE Absent])
K2 == Dict([key \in Keys |-> IF key = "k" THEN 2 ELSE Absent])
K1V2 == Dict([key \in Keys |-> IF key = "k" THEN 1 ELSE 2])

Point(id, pl, vector) == [id |-> id, payload |-> pl, vector |-> vector]

Lists(S) == UNION {[1..n -> S] : n \in 1..MaxList}

ListForm(points) == [form |-> "list", points |-> points, batch |-> <<>>]
BatchForm(batch) == [form |-> "Batch", points |-> <<>>, batch |-> batch]

IdList(point_ids) == [kind |-> "list", points |-> point_ids, filter |-> NoFilter]
PointIdsList(point_ids) == [kind |-> "PointIdsList", points |-> point_ids, filter |-> NoFilter]
FilterOf(f) == [kind |-> "Filter", points |-> <<>>, filter |-> f]
FilterSelector(f) == [kind |-> "FilterSelector", points |-> <<>>, filter |-> f]

MatchK1 == Filter(<<[type |-> "match", key |-> "k", value |-> 1]>>, <<>>)

InitWith(cfgs, ons) ==
    /\ config \in cfgs
    /\ held = Filter(<<>>, <<>>)
    /\ storage \in {[on |-> b, pts |-> <<>>] : b \in ons}
    /\ vectors = Empty(config, storage).vectors
    /\ payload = <<>>
    /\ share = <<>>
    /\ deleted = <<>>
    /\ ids = [e \in {} |-> 0]
    /\ ids_inv = <<>>
    /\ ret = [op |-> "load", status |-> "ok", k |-> 0, v |-> <<>>]

---------------------------------------------------------------------------
(* Spec: the write engine over two ids, with well-formed and malformed     *)
(* points.                                                                  *)

Init == InitWith({ConfigDefault, ConfigNamed}, {TRUE})

Points ==
    {Point(IntId(1), K1, VectorFor(config, Unit(1), Unit(2))),
     Point(IntId(2), None, VectorFor(config, RowShort, Unit(1))),
     Point(IntId(1), K2, WrongNames(config)),
     Point(IntId(2), K2, VectorFor(config, Unit(1), RowLong))}

Selectors == {IdList(l) : l \in Lists({IntId(1), IntId(2)})}

ConfiguredNames == {config[i].name : i \in DOMAIN config}
RowOf(vector, name) ==
    LET items == ToItems(vector) IN
    items[CHOOSE x \in DOMAIN items : items[x].name = name].v

\* the batch whose aligned columns are the given points
BatchOf(points) ==
    [ids |-> [i \in DOMAIN points |-> points[i].id],
     payloads |-> [isNone |-> FALSE,
                   items |-> [i \in DOMAIN points |-> points[i].payload]],
     vectors |->
        IF ConfiguredNames = {DEFAULT_VECTOR_NAME}
        THEN [kind |-> "list",
              rows |-> [i \in DOMAIN points |-> RowOf(points[i].vector, DEFAULT_VECTOR_NAME)]]
        ELSE [kind |-> "dict",
              items |-> [j \in DOMAIN config |->
                           [name |-> config[j].name,
                            rows |-> [i \in DOMAIN points |->
                                        RowOf(points[i].vector, config[j].name)]]]]]

\* the points a batch stands for (lines 452-465)
PointsOf(batch) ==
    [i \in DOMAIN batch.ids |->
        Point(batch.ids[i],
              IF batch.payloads.isNone THEN None ELSE batch.payloads.items[i],
              DictVector([j \in DOMAIN BatchItems(batch) |->
                  [name |-> BatchItems(batch)[j].name,
                   v |-> BatchItems(batch)[j].rows[i]]]))]

WellNamed(S) == {p \in S : Names(ToItems(p.vector)) = ConfiguredNames}

Batches == {BatchOf(points) : points \in Lists(WellNamed(Points))}

Next ==
    \/ \E points \in Lists(Points) : Upsert(ListForm(points), 0)
    \/ \E batch \in Batches : Upsert(BatchForm(batch), 0)
    \/ \E s \in Selectors : Delete(s, 0)
    \/ SetPayload(K2, FilterOf(MatchK1), 0)
    \/ ClearPayload(IdList(<<IntId(2)>>), 0)

Spec == Init /\ [][Next]_vars

---------------------------------------------------------------------------
(* Views used by the properties *)

PointIds(points) == [i \in DOMAIN points |-> points[i].id]

VecMap(vector) == [n \in Names(ToItems(vector)) |-> RowOf(vector, n)]

\* retrieve([p.id]) with payload and vectors returns one record carrying
\* p's payload and p's vectors
ShowsPoint(c, p) ==
    LET r == retrieve(c, <<p.id>>, WithBool(TRUE), WithBool(TRUE)) IN
    /\ r.err = "ok"
    /\ Len(r.val) = 1
    /\ r.val[1].id = p.id
    /\ r.val[1].payload = p.payload
    /\ r.val[1].vector.kind # "None"
    /\ VecMap(r.val[1].vector) = VecMap(p.vector)

\* what the collection and the store hold for an external id
Slot(c, e) ==
    IF e \notin DOMAIN c.ids
    THEN [known |-> FALSE, idx |-> 0, payload |-> None, deleted |-> FALSE,
          rows |-> <<>>, stored |-> <<>>]
    ELSE [known |-> TRUE, idx |-> c.ids[e], payload |-> c.payload[c.ids[e] + 1],
          deleted |-> c.deleted[c.ids[e] + 1],
          rows |-> [i \in DOMAIN config |->
                      IF c.ids[e] < Len(c.vectors[config[i].name].rows)
                      THEN c.vectors[config[i].name].rows[c.ids[e] + 1]
                      ELSE <<>>],
          stored |-> SelectSeq(c.storage.pts, LAMBDA q : q.id = e)]

---------------------------------------------------------------------------
(* Properties *)

\* C1: after every public operation, whether it returned or raised, the
\* payload list, the tombstone vector and the index-to-id list have the same
\* length len, and every configured matrix has at least len rows.
C1_LengthsAgree ==
    Constructed =>
        /\ Len(payload) = Len(deleted)
        /\ Len(deleted) = Len(ids_inv)
        /\ \A i \in DOMAIN config :
              Len(vectors[config[i].name].rows) >= Len(ids_inv)

\* C2: after delete(ids) of points that exist, retrieve of the same ids
\* returns the empty list.
C2_DeleteThenRetrieveEmpty ==
    [][\A s \in Selectors :
          (/\ Delete(s, 0)
           /\ ret'.status = "ok")
          => retrieve(Coll', s.points, WithBool(TRUE), WithBool(FALSE)) = Done(<<>>)]_vars

\* C3: an upsert of an id that was upserted and then deleted re-uses the
\* id's internal index, clears the tombstone, leaves len unchanged, and the
\* point is then visible with the new payload and vectors and counted once.
C3_ReupsertReusesSlot ==
    [][\A p \in Points :
          (/\ Upsert(ListForm(<<p>>), 0)
           /\ ret'.status = "ok"
           /\ p.id \in DOMAIN ids
           /\ deleted[ids[p.id] + 1])
          => /\ ids'[p.id] = ids[p.id]
             /\ ~deleted'[ids[p.id] + 1]
             /\ Len(ids_inv') = Len(ids_inv)
             /\ ShowsPoint(Coll', p)
             /\ count(Coll', NoFilter) = count(Coll, NoFilter) + 1]_vars

\* C5: after a successful upsert of p, retrieve([p.id]) with payload and
\* vectors returns one record carrying exactly p's payload and p's vectors.
C5_RetrieveReturnsUpserted ==
    [][\A p \in Points :
          (/\ Upsert(ListForm(<<p>>), 0)
           /\ ret'.status = "ok")
          => ShowsPoint(Coll', p)]_vars

\* C6: a single-point upsert that reports an error commits nothing.
C6_FailedUpsertCommitsNothing ==
    [][\A p \in Points :
          (/\ Upsert(ListForm(<<p>>), 0)
           /\ ret'.status # "ok")
          => UNCHANGED collection]_vars

\* the points before position k hold what upserting them alone leaves, and
\* the ids that only occur after position k hold what they held before
KeepsPrefix(points, k) ==
    LET before == upsert(Coll, ListForm(Take(points, k - 1)), 0).c IN
    /\ \A i \in 1..(k - 1) :
          Slot(Coll', points[i].id) = Slot(before, points[i].id)
    /\ \A i \in (k + 1)..Len(points) :
          points[i].id \notin {points[j].id : j \in 1..k}
          => Slot(Coll', points[i].id) = Slot(Coll, points[i].id)

\* C7: when a list-form or batch-form upsert fails at its k-th point, every
\* point before k stays applied in memory and persisted, and no point after
\* k is applied or persisted.
C7_FailedUpsertKeepsPrefix ==
    [][/\ \A points \in Lists(Points) :
             (/\ Upsert(ListForm(points), 0)
              /\ ret'.status # "ok")
             => KeepsPrefix(points, ret'.k)
       /\ \A batch \in Batches :
             (/\ Upsert(BatchForm(batch), 0)
              /\ ret'.status # "ok")
             => KeepsPrefix(PointsOf(batch), ret'.k)]_vars

IsPrefix(s, t) == Len(s) <= Len(t) /\ SubSeq(t, 1, Len(s)) = s

IdTableBijective ==
    /\ DOMAIN ids = Range(ids_inv)
    /\ \A i \in DOMAIN ids_inv : ids[ids_inv[i]] = i - 1

\* C4: the id table is a bijection in first-insertion order: in every state
\* ids_inv[ids[e]] = e; upserting a known id leaves len unchanged, upserting
\* an unknown id appends it with index len; no call changes an index already
\* assigned.
C4_IdTableInsertionOrder ==
    /\ [](/\ IdTableBijective
          /\ \A p \in Points :
                LET r == _upsert_point(Coll, p, TRUE) IN
                r.err = "ok" =>
                    IF p.id \in DOMAIN ids
                    THEN r.c.ids_inv = ids_inv /\ r.c.ids = ids
                    ELSE /\ r.c.ids_inv = Append(ids_inv, p.id)
                         /\ r.c.ids[p.id] = Len(ids_inv))
    /\ [][IsPrefix(ids_inv, ids_inv') /\ \A e \in DOMAIN ids : ids'[e] = ids[e]]_vars

C4_TwoIdsInserted ==
    /\ ret.op = "upsert"
    /\ ret.status = "ok"
    /\ Len(ids_inv) >= 2
    /\ \E i \in DOMAIN deleted : deleted[i]

---------------------------------------------------------------------------
(* SpecP: a persistent collection under calls that all return normally,    *)
(* with restarts.                                                           *)

InitP == InitWith({ConfigNamed}, {TRUE})

PointsP ==
    {Point(IntId(1), K1, VectorFor(config, Unit(1), Unit(2))),
     Point(StrId(1), K1, VectorFor(config, Unit(2), Unit(1)))}

SelectorsP ==
    {IdList(<<IntId(1)>>), PointIdsList(<<IntId(1), StrId(1)>>),
     FilterSelector(MatchK1)}

\* the call A returns normally
Returns(A) == A /\ ret'.status = "ok"

NextP ==
    \/ \E points \in Lists(PointsP) : Returns(Upsert(ListForm(points), 0))
    \/ \E s \in SelectorsP : Returns(Delete(s, 0))
    \/ \E s \in SelectorsP : Returns(SetPayload(K2, s, 0))
    \/ \E s \in SelectorsP : Returns(OverwritePayload(K1V2, s, 0))
    \/ \E s \in SelectorsP : Returns(DeletePayload(<<"k">>, s, 0))
    \/ Returns(ClearPayload(FilterOf(MatchK1), 0))
    \/ Returns(Restart)

SpecP == InitP /\ [][NextP]_vars

LiveIds(c) == {c.ids_inv[i] : i \in {j \in DOMAIN c.ids_inv : ~c.deleted[j]}}

\* payload and vectors the collection holds for a known id
MemoryPoint(c, e) ==
    [payload |-> c.payload[c.ids[e] + 1],
     vectors |-> [n \in DOMAIN c.vectors |-> c.vectors[n].rows[c.ids[e] + 1]]]

\* payload and vectors of a record of the store
StoredPoint(q) == [payload |-> q.payload, vectors |-> VecMap(q.vector)]

LiveView(c) == [e \in LiveIds(c) |-> MemoryPoint(c, e)]

\* C8: on a persistent collection, after any sequence of successful writes
\* the store holds exactly one record per live point, carrying the point's
\* in-memory payload and vectors, and none for a tombstoned point; a
\* collection rebuilt by load() has the same live ids, payloads and vectors.
C8_StoreHoldsLivePoints ==
    /\ StoreIds(storage.pts) = LiveIds(Coll)
    /\ \A i, j \in DOMAIN storage.pts :
          storage.pts[i].id = storage.pts[j].id => i = j
    /\ \A i \in DOMAIN storage.pts :
          storage.pts[i].id \in LiveIds(Coll)
          => StoredPoint(storage.pts[i]) = MemoryPoint(Coll, storage.pts[i].id)
    /\ LET r == load(config, storage) IN
       r.err = "ok" /\ LiveView(r.c) = LiveView(Coll)

---------------------------------------------------------------------------
(* SpecF: writes whose call of the persistence adapter can fail.            *)

InitF == InitWith({ConfigDefault}, {TRUE})

PointsF ==
    {Point(IntId(1), K1, VectorFor(config, Unit(1), Unit(2))),
     Point(IntId(2), None, VectorFor(config, RowShort, Unit(1)))}

SelectorsF == {IdList(l) : l \in Lists({IntId(1), IntId(2)})}
PayloadSelectorsF == {IdList(<<IntId(1)>>), IdList(<<IntId(2), IntId(1)>>)}

\* which adapter call of a write fails (0: none)
FailAt == 0..MaxList

NextF ==
    \/ \E points \in Lists(PointsF), f \in FailAt : Upsert(ListForm(points), f)
    \/ \E s \in SelectorsF, f \in FailAt : Delete(s, f)
    \/ \E s \in PayloadSelectorsF, f \in FailAt : SetPayload(K2, s, f)
    \/ Restart

SpecF == InitF /\ [][NextF]_vars

\* id table, payloads, vectors and tombstones
Memory(c) ==
    [vectors |-> c.vectors, payload |-> c.payload, deleted |-> c.deleted,
     ids |-> c.ids, ids_inv |-> c.ids_inv]

\* C9: every write updates memory before it calls the persistence adapter:
\* when the adapter fails at the k-th point of a call, the error is raised at
\* that point, memory is what the writes up to and including point k leave
\* (for delete: every tombstone of the call is set), and the store is what
\* the adapter calls before the k-th left.
C9_MemoryWrittenBeforePersist ==
    Constructed =>
        /\ \A points \in Lists(PointsF), k \in 1..MaxList :
              LET r == upsert(Coll, ListForm(points), k) IN
              r.err = "PersistenceError" =>
                 /\ r.k = k
                 /\ Memory(r.c) = Memory(upsert(Coll, ListForm(Take(points, k)), 0).c)
                 /\ r.c.storage =
                        upsert(Coll, ListForm(Take(points, k - 1)), 0).c.storage
        /\ \A s \in SelectorsF, k \in 1..MaxList :
              LET r == delete(Coll, s, k) IN
              r.err = "PersistenceError" =>
                 /\ r.k = k
                 /\ Memory(r.c) = Memory(delete(Coll, s, 0).c)
                 /\ r.c.storage =
                        delete(Coll, IdList(Take(s.points, k - 1)), 0).c.storage
        /\ \A s \in PayloadSelectorsF, k \in 1..MaxList :
              LET r == mutate_payload(Coll, "set_payload", K2, s, k) IN
              r.err = "PersistenceError" =>
                 /\ r.k = k
                 /\ Memory(r.c) =
                        Memory(mutate_payload(Coll, "set_payload", K2,
                                              IdList(Take(s.points, k)), 0).c)
                 /\ r.c.storage =
                        mutate_payload(Coll, "set_payload", K2,
                                       IdList(Take(s.points, k - 1)), 0).c.storage

C9_WriteOnlyInMemory ==
    /\ ret.op = "upsert"
    /\ ret.status = "PersistenceError"
    /\ \E e \in LiveIds(Coll) : e \notin StoreIds(storage.pts)

---------------------------------------------------------------------------
(* SpecR: the read calls over a collection with live, tombstoned and        *)
(* half-written points.                                                     *)

\* longest must_not list of the caller's filter
MaxMustNot == 2

InitR == InitWith({ConfigDefault, ConfigNamed}, {TRUE})

PointsR ==
    {Point(IntId(1), K1, VectorFor(config, Unit(1), Unit(2))),
     Point(IntId(2), K2, VectorFor(config, Unit(2), Unit(2))),
     Point(IntId(3), None, WrongNames(config))}

NoThreshold == [isNone |-> TRUE, t |-> 0]
Threshold(t) == [isNone |-> FALSE, t |-> t]
NoOffset == [isNone |-> TRUE, id |-> IntId(0)]
Offset(id) == [isNone |-> FALSE, id |-> id]
NoIds == [isNone |-> TRUE, ids |-> <<>>]
Ids(l) == [isNone |-> FALSE, ids |-> l]
NoName == [isNone |-> TRUE, name |-> DEFAULT_VECTOR_NAME]
Using(name) == [isNone |-> FALSE, name |-> name]

FirstName == config[1].name

Queries ==
    {[shape |-> "list", name |-> DEFAULT_VECTOR_NAME, v |-> Unit(1), den |-> 1],
     [shape |-> "tuple", name |-> FirstName, v |-> Unit(2), den |-> 1]}

Filters == {NoFilter, held}
WithPayloads == {WithBool(TRUE), WithList(<<"k">>)}
WithVectors == {WithBool(FALSE), WithBool(TRUE)}
Positives == {<<IntId(1)>>, <<IntId(1), IntId(2)>>}
ReadOps == {"retrieve", "count", "scroll", "search", "recommend", "info"}

NextR ==
    \/ \E p \in PointsR : Upsert(ListForm(<<p>>), 0)
    \/ \E e \in {IntId(1), IntId(2)} : Delete(IdList(<<e>>), 0)
    \/ \E l \in {<<IntId(1)>>, <<IntId(2), IntId(3)>>}, wp \in WithPayloads,
          wv \in WithVectors :
          Retrieve(l, wp, wv)
    \/ \E f \in Filters \cup {MatchK1} : Count(f)
    \/ \E f \in Filters, o \in {NoOffset, Offset(IntId(2))}, wv \in WithVectors :
          Scroll(f, 1, o, WithBool(TRUE), wv)
    \/ \E q \in Queries, f \in Filters, t \in {NoThreshold, Threshold(1)} :
          Search(q, f, 1, 0, WithBool(TRUE), WithBool(FALSE), t)
    \/ \E positive \in Positives, pass_held \in BOOLEAN,
          using \in {NoName, Using(FirstName)} :
          /\ pass_held => Len(held.must_not) < MaxMustNot
          /\ Recommend(positive, NoIds, pass_held, 2, 0, WithBool(TRUE),
                       WithBool(FALSE), NoThreshold, using)
    \/ Info

SpecR == InitR /\ [][NextR]_vars

\* C10: search, recommend, scroll, count, retrieve and info leave the id
\* table, payloads, matrices, tombstones and the store as they were, also
\* when they raise; and a repeated call returns the same result: the other
\* reads leave their arguments alone, and recommend, which appends to the
\* filter object it is given, returns the same list when it is called again
\* with that object.
C10_ReadsChangeNothing ==
    /\ [](Constructed =>
            \A positive \in Positives, negative \in {NoIds, Ids(<<IntId(2)>>)} :
               LET q == recommend_query(Coll, positive, negative, held, Using(FirstName))
                   first == recommend(Coll, positive, negative, held, 2, 0,
                                      WithBool(TRUE), WithBool(FALSE), NoThreshold,
                                      Using(FirstName))
                   again == recommend(Coll, positive, negative,
                                      IF q.err = "ok" THEN q.filter ELSE held, 2, 0,
                                      WithBool(TRUE), WithBool(FALSE), NoThreshold,
                                      Using(FirstName))
               IN  again = first)
    /\ [][ret'.op \in ReadOps =>
             /\ UNCHANGED collection
             /\ ret'.op # "recommend" => UNCHANGED held]_vars

C10_RecommendAnswered ==
    /\ ret.op = "recommend"
    /\ ret.status = "ok"
    /\ Len(ret.v) >= 1
    /\ Len(held.must_not) >= 1
    /\ \E i \in DOMAIN deleted : deleted[i]

---------------------------------------------------------------------------
(* SpecQ: the query engine over points with different scores under a       *)
(* bigger-is-better and a smaller-is-better metric.                         *)

\* largest limit passed to search, scroll and recommend
MaxLimit == 2

InitQ == InitWith({ConfigNamed}, {TRUE})

Row(a, b) == [j \in 1..Dim |-> IF j = 1 THEN a ELSE IF j = 2 THEN b ELSE 0]

PointsQ ==
    {Point(IntId(1), K1, VectorFor(config, Row(1, 0), Row(0, 1))),
     Point(IntId(2), K1, VectorFor(config, Row(2, 1), Row(1, 1))),
     Point(StrId(1), K2, VectorFor(config, Row(0, 2), Row(2, 0))),
     Point(IntId(3), None, WrongNames(config))}

QueryOf(name, v) == [shape |-> "tuple", name |-> name, v |-> v, den |-> 1]

QueriesQ == {QueryOf(config[i].name, Row(1, 0)) : i \in DOMAIN config}
FiltersQ == {NoFilter, MatchK1}
Limits == 0..MaxLimit
Offsets == {0, 1}
Thresholds == {NoThreshold, Threshold(1)}

\* the offsets a paging caller passes: none, or the next_offset of the page
\* that scroll has just returned
NextOffsets ==
    {NoOffset} \cup
    (IF ret.op = "scroll" /\ ret.status = "ok" /\ ~ret.v.next.isNone
     THEN {Offset(ret.v.next.id)} ELSE {})

NextQ ==
    \/ \E p \in PointsQ : Upsert(ListForm(<<p>>), 0)
    \/ \E e \in {IntId(1), IntId(2), StrId(1)} : Delete(IdList(<<e>>), 0)
    \/ \E q \in QueriesQ :
          Search(q, NoFilter, MaxLimit, 1, WithBool(TRUE), WithBool(FALSE), NoThreshold)
    \/ \E o \in NextOffsets : Scroll(NoFilter, 1, o, WithBool(TRUE), WithBool(FALSE))
    \/ Count(MatchK1)
    \/ Recommend(<<IntId(1)>>, NoIds, FALSE, MaxLimit, 0, WithBool(TRUE),
                 WithBool(FALSE), NoThreshold, Using(FirstName))

SpecQ == InitQ /\ [][NextQ]_vars

\* position idx + 1 is not tombstoned and the filter accepts its payload
Accepts(c, f, pos) ==
    /\ ~c.deleted[pos]
    /\ calculate_payload_mask(c.payload, f, c.ids_inv)[pos]

\* the scores of a result list run from best to worst under the metric
BestFirst(recs, distance) ==
    \A i \in 1..(Len(recs) - 1) :
        IF distance_to_order(distance) = "BIGGER_IS_BETTER"
        THEN ~ScoreLess(recs[i].score, recs[i + 1].score)
        ELSE ~ScoreLess(recs[i + 1].score, recs[i].score)

\* C11: the points a search returns are listed in score order, non-increasing
\* for Dot and Cosine and non-decreasing for Euclid, and each of them is not
\* tombstoned and accepted by the filter.
C11_SearchBestFirst ==
    Constructed =>
        \A q \in QueriesQ, f \in FiltersQ, limit \in Limits, offset \in Offsets,
           t \in Thresholds :
           LET r == search(Coll, q, f, limit, offset, WithBool(TRUE),
                           WithBool(FALSE), t)
           IN  /\ r.err = "ok"
               /\ BestFirst(r.val, Distance(q.name))
               /\ \A i \in DOMAIN r.val :
                     /\ r.val[i].id \in DOMAIN ids
                     /\ Accepts(Coll, f, ids[r.val[i].id] + 1)

C11_TwoScoresReturned ==
    /\ ret.op = "search"
    /\ ret.status = "ok"
    /\ Len(ret.v) >= 2
    /\ ret.v[1].score # ret.v[2].score
    /\ \E i \in DOMAIN deleted : deleted[i]

\* the ids of a list that are known and not tombstoned
LiveAmong(c, point_ids) ==
    {e \in Range(point_ids) : e \in DOMAIN c.ids /\ ~c.deleted[c.ids[e] + 1]}

\* C12: count(filter) is the number of indices the filter accepts that are
\* not tombstoned; with no filter it is the number of ids upserted and not
\* currently deleted: 0 at first, one more after the upsert of an id that
\* was not live, unchanged by an upsert that raises or that updates a live
\* id, and less by the live ids of a delete.
C12_CountsLivePoints ==
    /\ [](Constructed =>
            /\ \A f \in {NoFilter, MatchK1} :
                  count(Coll, f) =
                      Cardinality({i \in DOMAIN payload : Accepts(Coll, f, i)})
            /\ Len(ids_inv) = 0 => count(Coll, NoFilter) = 0)
    /\ [][/\ \A p \in Points :
                Upsert(ListForm(<<p>>), 0) =>
                    count(Coll', NoFilter) =
                        count(Coll, NoFilter) +
                        (IF ret'.status = "ok" /\ LiveAmong(Coll, <<p.id>>) = {}
                         THEN 1 ELSE 0)
          /\ \A s \in Selectors :
                (Delete(s, 0) /\ ret'.status = "ok") =>
                    count(Coll', NoFilter) =
                        count(Coll, NoFilter) - Cardinality(LiveAmong(Coll, s.points))]_vars

\* the pages a caller gets who scrolls from `offset` and feeds every
\* next_offset back, at most `fuel` pages
RECURSIVE Paging(_, _, _, _, _)
Paging(c, f, limit, offset, fuel) ==
    IF fuel = 0 THEN <<>>
    ELSE LET r == scroll(c, f, limit, offset, WithBool(TRUE), WithBool(FALSE))
         IN  IF r.err # "ok" THEN <<r>>
             ELSE <<r>> \o (IF r.val.next.isNone THEN <<>>
                            ELSE Paging(c, f, limit, Offset(r.val.next.id), fuel - 1))

RECURSIVE Concat(_)
Concat(pages) ==
    IF Len(pages) = 0 THEN <<>>
    ELSE [i \in DOMAIN pages[1].val.records |-> pages[1].val.records[i].id]
             \o Concat(Tail(pages))

\* integer ids in numeric order before string ids in lexicographic order
IdBefore(a, b) ==
    \/ a[1] = "int" /\ b[1] = "str"
    \/ a[1] = b[1] /\ a[2] < b[2]

\* C13: scrolling with limit >= 1 and feeding next_offset back until it is
\* none ends, gives pages of at most limit records whose ids, concatenated,
\* are exactly the ids that are not tombstoned and that the filter accepts,
\* as many as count reports, each once, integers in numeric order before
\* strings in lexicographic order; every next_offset is the id of the first
\* record of the following page.
C13_ScrollPagesEveryLivePoint ==
    Constructed =>
        \A f \in FiltersQ : \A limit \in 1..MaxLimit :
            LET pages == Paging(Coll, f, limit, NoOffset, Len(ids_inv) + 1)
                all   == Concat(pages)
            IN  /\ \A i \in DOMAIN pages :
                      /\ pages[i].err = "ok"
                      /\ Len(pages[i].val.records) <= limit
                      /\ pages[i].val.next.isNone <=> i = Len(pages)
                      /\ i < Len(pages) =>
                            pages[i].val.next.id = pages[i + 1].val.records[1].id
                /\ \A i \in 1..(Len(all) - 1) : IdBefore(all[i], all[i + 1])
                /\ Range(all) = {e \in DOMAIN ids : Accepts(Coll, f, ids[e] + 1)}
                /\ Len(all) = count(Coll, f)

\* a later page of a scroll has been returned: it starts at a string id
\* while an integer id is live and another point is tombstoned
C13_LaterPageReturned ==
    /\ ret.op = "scroll" /\ ret.status = "ok"
    /\ Len(ret.v.records) = 1
    /\ ret.v.records[1].id = StrId(1)
    /\ LiveAmong(Coll, <<IntId(1)>>) # {}
    /\ \E i \in DOMAIN deleted : deleted[i]

---------------------------------------------------------------------------
(* SpecN: the ranked reads (search with offset and threshold, recommend    *)
(* with and without negatives) over the points of SpecQ.                   *)

NextN ==
    \/ \E p \in PointsQ : Upsert(ListForm(<<p>>), 0)
    \/ \E e \in {IntId(1), IntId(2), StrId(1)} : Delete(IdList(<<e>>), 0)
    \/ Search(QueryOf(FirstName, Row(1, 0)), NoFilter, 1, 1, WithBool(TRUE),
              WithBool(FALSE), Threshold(1))
    \/ \E negative \in {NoIds, Ids(<<IntId(2)>>)} :
          Recommend(<<IntId(1)>>, negative, FALSE, MaxLimit, 0, WithBool(TRUE),
                    WithBool(FALSE), NoThreshold, Using(FirstName))

SpecN == InitQ /\ [][NextN]_vars

\* the sum of the stored rows of a list of ids, component by component
RowSum(c, name, point_ids) ==
    [j \in 1..c.vectors[name].dim |->
        SumTo([i \in DOMAIN point_ids |->
                  c.vectors[name].rows[c.ids[point_ids[i]] + 1][j]], Len(point_ids))]

\* mean(positive), or 2 * mean(positive) - mean(negative), as the fraction
\* v / den
Example(c, name, positive, negative) ==
    LET p == Len(positive)
        n == Len(negative)
        sp == RowSum(c, name, positive)
        sn == RowSum(c, name, negative)
    IN  IF n = 0 THEN [shape |-> "tuple", name |-> name, v |-> sp, den |-> p]
        ELSE [shape |-> "tuple", name |-> name, den |-> p * n,
              v |-> [j \in DOMAIN sp |-> 2 * n * sp[j] - p * sn[j]]]

PositivesQ == {<<IntId(1)>>, <<StrId(1), IntId(2)>>, <<IntId(3)>>}
NegativesQ == {NoIds, Ids(<<IntId(2)>>), Ids(<<StrId(1), IntId(1)>>)}

\* C14: without a filter, recommend returns what search returns for the
\* mean of the positive points' vectors (for twice that mean minus the mean
\* of the negative points' vectors when negatives are given) with the
\* mentioned ids removed and the result truncated to limit; with or without
\* a filter no id listed in positive or negative is returned.
C14_RecommendIsSearchOfMean ==
    Constructed =>
        \A name \in ConfiguredNames : \A positive \in PositivesQ :
        \A negative \in NegativesQ :
            LET mentioned == Range(positive) \cup Range(negative.ids)
                f == recommend(Coll, positive, negative, MatchK1, MaxLimit, 0,
                               WithBool(TRUE), WithBool(FALSE), NoThreshold, Using(name))
            IN  /\ f.err = "ok" => \A i \in DOMAIN f.val : f.val[i].id \notin mentioned
                /\ \A limit \in Limits :
                      LET r == recommend(Coll, positive, negative, NoFilter, limit, 0,
                                         WithBool(TRUE), WithBool(FALSE), NoThreshold,
                                         Using(name))
                          s == search(Coll, Example(Coll, name, positive, negative.ids),
                                      NoFilter, Len(ids_inv), 0, WithBool(TRUE),
                                      WithBool(FALSE), NoThreshold)
                      IN  r.err = "ok" =>
                              /\ s.err = "ok"
                              /\ r.val = Take(SelectSeq(s.val,
                                                 LAMBDA x : x.id \notin mentioned), limit)

\* recommend has answered with two points while its positive point is live
\* and another point is tombstoned
C14_RecommendReturnedOthers ==
    /\ ret.op = "recommend" /\ ret.status = "ok"
    /\ Len(ret.v) = 2
    /\ LiveAmong(Coll, <<IntId(1)>>) # {}
    /\ \E i \in DOMAIN deleted : deleted[i]

---------------------------------------------------------------------------
(* SpecM: payload mutations and payload reads over two well-formed points, *)
(* one upserted without a payload.                                         *)

InitM == InitWith({ConfigDefault}, {TRUE})

PointsM ==
    {Point(IntId(1), None, VectorFor(config, Unit(1), Unit(2))),
     Point(IntId(2), K1V2, VectorFor(config, Unit(2), Unit(1)))}

SelectorsM == {IdList(<<IntId(1)>>), IdList(<<IntId(1), IntId(2)>>)}

ProjectionsM == {WithBool(TRUE), WithList(<<"k">>), Include(<<"k">>), Exclude(<<"k">>)}

NextM ==
    \/ \E p \in PointsM : Upsert(ListForm(<<p>>), 0)
    \/ Delete(IdList(<<IntId(2)>>), 0)
    \/ \E s \in SelectorsM : SetPayload(K2, s, 0)
    \/ \E s \in SelectorsM : OverwritePayload(K1, s, 0)
    \/ \E s \in SelectorsM : DeletePayload(<<"k">>, s, 0)
    \/ \E s \in SelectorsM : ClearPayload(s, 0)
    \/ \E w \in ProjectionsM : Retrieve(<<IntId(1), IntId(2)>>, w, WithBool(FALSE))
    \/ Scroll(NoFilter, MaxLimit, NoOffset, WithBool(TRUE), WithBool(FALSE))
    \/ Search(QueryOf(DEFAULT_VECTOR_NAME, Unit(1)), NoFilter, MaxLimit, 0,
              WithBool(TRUE), WithBool(FALSE), NoThreshold)

SpecM == InitM /\ [][NextM]_vars

\* a null payload counted as the empty mapping
OrEmpty(pl) == IF pl.isNone THEN Dict(EmptyDict) ELSE pl

\* the payload of the point with id e
PayloadOf(c, e) == c.payload[c.ids[e] + 1]

\* the selector names only ids of the id table
Resolves(s) == Range(s.points) \subseteq DOMAIN ids

\* C15: for each point the selector resolves to, the payload after
\* set_payload(P) is the old payload (null counted as empty) with P's keys
\* added or overwritten, after overwrite_payload(P) exactly P, after
\* delete_payload(K) the old payload without the keys of K, and after
\* clear_payload the empty mapping.
C15_PayloadAfterMutation ==
    [][\A s \in SelectorsM : Resolves(s) =>
          /\ SetPayload(K2, s, 0) =>
                \A e \in Range(s.points) :
                    PayloadOf(Coll', e) = Merge(OrEmpty(PayloadOf(Coll, e)), K2)
          /\ OverwritePayload(K1, s, 0) =>
                \A e \in Range(s.points) : PayloadOf(Coll', e) = K1
          /\ DeletePayload(<<"k">>, s, 0) =>
                \A e \in Range(s.points) :
                    OrEmpty(PayloadOf(Coll', e)) = Pop(OrEmpty(PayloadOf(Coll, e)), <<"k">>)
          /\ ClearPayload(s, 0) =>
                \A e \in Range(s.points) : PayloadOf(Coll', e) = Dict(EmptyDict)]_vars

\* the records of the answer of a read
RecordsOf(r) == IF r.op = "scroll" THEN r.v.records ELSE r.v

\* C16: a point upserted without a payload is read back with the empty
\* mapping: retrieve, scroll and search with payload requested, also with a
\* key-list, include or exclude projection, return normally and give {} for
\* it, never null.
C16_NullPayloadReadAsEmpty ==
    ret.op \in {"retrieve", "scroll", "search"} =>
        /\ ret.status = "ok"
        /\ \A i \in DOMAIN RecordsOf(ret) :
              PayloadOf(Coll, RecordsOf(ret)[i].id).isNone =>
                  RecordsOf(ret)[i].payload = Dict(EmptyDict)

---------------------------------------------------------------------------
(* SpecB: list-form and batch-form upserts of the same points, one of them *)
(* with a vector that is too long.                                         *)

InitB == InitWith({ConfigDefault, ConfigNamed}, {TRUE})

PointsB ==
    {Point(IntId(1), K1, VectorFor(config, Unit(1), Unit(2))),
     Point(IntId(2), None, VectorFor(config, Unit(2), Unit(1))),
     Point(IntId(1), K2, VectorFor(config, Unit(1), RowLong))}

\* the batches whose aligned columns are the given points: payloads may be
\* left out when no point has one
BatchesOf(points) ==
    {BatchOf(points)} \cup
    (IF \A i \in DOMAIN points : points[i].payload.isNone
     THEN {[BatchOf(points) EXCEPT !.payloads = [isNone |-> TRUE, items |-> <<>>]]}
     ELSE {})

SelectorsB ==
    {IdList(<<IntId(1)>>), IdList(<<IntId(2), IntId(1)>>), PointIdsList(<<IntId(2)>>),
     FilterOf(MatchK1), FilterSelector(MatchK1)}

NextB ==
    \/ \E points \in Lists(PointsB) : Upsert(ListForm(points), 0)
    \/ \E points \in Lists(PointsB) : \E batch \in BatchesOf(points) :
          Upsert(BatchForm(batch), 0)
    \/ \E s \in SelectorsB : Delete(s, 0)

SpecB == InitB /\ [][NextB]_vars

\* id, payload and vectors of the records of the store, in store order
StoreView(c) ==
    [i \in DOMAIN c.storage.pts |->
        [id |-> c.storage.pts[i].id, point |-> StoredPoint(c.storage.pts[i])]]

\* C17: from the same state, the batch-form upsert with aligned arrays and
\* the list-form upsert of the corresponding points in the same order end
\* alike (both return, or both raise the same error at the same position)
\* and leave the same id table, payloads, vector rows, tombstones and points
\* in the store.
C17_BatchAsList ==
    Constructed =>
        \A points \in Lists(PointsB) : \A batch \in BatchesOf(points) :
            LET b == upsert(Coll, BatchForm(batch), 0)
                l == upsert(Coll, ListForm(points), 0)
            IN  /\ b.err = l.err
                /\ b.k = l.k
                /\ Memory(b.c) = Memory(l.c)
                /\ StoreView(b.c) = StoreView(l.c)

\* a batch of two points has been upserted: only the batch form persists
\* the unnamed vector as a mapping
C17_BatchUpserted ==
    /\ ConfiguredNames = {DEFAULT_VECTOR_NAME}
    /\ ret.op = "upsert" /\ ret.status = "ok"
    /\ Len(ids_inv) = 2
    /\ \A i \in DOMAIN storage.pts : storage.pts[i].vector.kind = "dict"
    /\ Len(storage.pts) = 2

\* the score of the row at position pos under the metric of the query's name
ScoreAt(c, q, pos) ==
    calculate_distance(q.v, q.den, c.vectors[q.name].rows[pos], Distance(q.name))

\* score a is strictly better than score b under the metric
Better(a, b, distance) ==
    IF distance_to_order(distance) = "BIGGER_IS_BETTER" THEN ScoreLess(b, a)
    ELSE ScoreLess(a, b)

HasRow(c, name, pos) == pos <= Len(c.vectors[name].rows)

\* the positions of the points that are not tombstoned, accepted by the
\* filter and, under a threshold, at least as good as the threshold
Qualifying(c, q, f, t) ==
    {pos \in DOMAIN c.payload :
        /\ Accepts(c, f, pos)
        /\ ~t.isNone =>
              /\ HasRow(c, q.name, pos)
              /\ ~Better(<<t.t, 1>>, ScoreAt(c, q, pos), Distance(q.name))}

\* C18: search returns exactly the entries at positions offset ..
\* offset+limit-1 of the list of points that are not tombstoned, accepted by
\* the filter and at least as good as the threshold when one is given,
\* ranked best first: min(limit, max(0, M - offset)) points, M the length of
\* that list, each of them a point of the list and at its rank (fewer than
\* its rank are strictly better, at least its rank are as good or better).
C18_SearchReturnsWindow ==
    Constructed =>
        \A q \in QueriesQ, f \in FiltersQ, limit \in Limits, offset \in Offsets,
           t \in Thresholds :
           LET r == search(Coll, q, f, limit, offset, WithBool(TRUE),
                           WithBool(FALSE), t)
               Q == Qualifying(Coll, q, f, t)
               d == Distance(q.name)
           IN  /\ r.err = "ok"
               /\ Len(r.val) = Min({limit, Max({0, Cardinality(Q) - offset})})
               /\ \A i, j \in DOMAIN r.val : i # j => r.val[i].id # r.val[j].id
               /\ \A j \in DOMAIN r.val :
                     /\ r.val[j].id \in DOMAIN ids
                     /\ ids[r.val[j].id] + 1 \in Q
                     /\ r.val[j].score = ScoreAt(Coll, q, ids[r.val[j].id] + 1)
                     /\ Cardinality({pos \in Q :
                            /\ HasRow(Coll, q.name, pos)
                            /\ Better(ScoreAt(Coll, q, pos), r.val[j].score, d)})
                            <= offset + j - 1
                     /\ Cardinality({pos \in Q :
                            /\ HasRow(Coll, q.name, pos)
                            /\ ~Better(r.val[j].score, ScoreAt(Coll, q, pos), d)})
                            >= offset + j

\* every point outside the selector keeps its payload, and rows, tombstones
\* and the id table are as before
OnlySelectedPayloads(s) ==
    /\ \A e \in DOMAIN ids \ Range(s.points) : PayloadOf(Coll', e) = PayloadOf(Coll, e)
    /\ vectors' = vectors
    /\ deleted' = deleted
    /\ ids' = ids
    /\ ids_inv' = ids_inv

\* C19: set_payload, overwrite_payload, delete_payload and clear_payload
\* change the payload of the points the selector resolves to and of no other
\* point, in every reachable state, also after an overwrite_payload of
\* several points in one call; vector rows, tombstones and the id table are
\* unchanged.
C19_MutationTouchesOnlySelected ==
    [][\A s \in SelectorsM :
          /\ SetPayload(K2, s, 0) => OnlySelectedPayloads(s)
          /\ OverwritePayload(K1, s, 0) => OnlySelectedPayloads(s)
          /\ DeletePayload(<<"k">>, s, 0) => OnlySelectedPayloads(s)
          /\ ClearPayload(s, 0) => OnlySelectedPayloads(s)]_vars

\* the ids a selector stands for: the listed ones, or the live points the
\* filter accepts
Selected(c, s) ==
    IF s.kind \in {"list", "PointIdsList"} THEN Range(s.points)
    ELSE {e \in DOMAIN c.ids : Accepts(c, s.filter, c.ids[e] + 1)}

\* the ids of the records of an answer
IdsOf(recs) == {recs[i].id : i \in DOMAIN recs}

\* C20: delete changes only tombstone flags and removes the selected ids
\* from the store: the id table, every vector row and every payload are as
\* before, a flag changes only by being set for a selected id, and after a
\* delete that returns the selected points are tombstoned, absent from the
\* store and from the answers of search and scroll, and no longer counted.
C20_DeleteOnlyTombstones ==
    Constructed =>
        \A s \in SelectorsB :
            LET r == delete(Coll, s, 0)
                c == r.c
                sel == Selected(Coll, s)
            IN  /\ c.ids = ids /\ c.ids_inv = ids_inv
                /\ c.vectors = vectors /\ c.payload = payload /\ c.share = share
                /\ Len(c.deleted) = Len(deleted)
                /\ \A i \in DOMAIN deleted :
                      c.deleted[i] # deleted[i] => c.deleted[i] /\ ids_inv[i] \in sel
                /\ r.err = "ok" =>
                      /\ sel \subseteq DOMAIN ids
                      /\ \A e \in sel : c.deleted[ids[e] + 1]
                      /\ StoreIds(c.storage.pts) = StoreIds(storage.pts) \ sel
                      /\ \A i \in DOMAIN c.storage.pts :
                            \E j \in DOMAIN storage.pts : c.storage.pts[i] = storage.pts[j]
                      /\ count(c, NoFilter) =
                            count(Coll, NoFilter) -
                                Cardinality({e \in sel : ~deleted[ids[e] + 1]})
                      /\ LET page == scroll(c, NoFilter, Len(ids_inv), NoOffset,
                                            WithBool(TRUE), WithBool(FALSE))
                         IN  page.err = "ok" /\ IdsOf(page.val.records) \cap sel = {}
                      /\ \A name \in ConfiguredNames :
                            LET found == search(c, QueryOf(name, Unit(1)), NoFilter,
                                                Len(ids_inv), 0, WithBool(TRUE),
                                                WithBool(FALSE), NoThreshold)
                            IN  found.err = "ok" /\ IdsOf(found.val) \cap sel = {}

\* a delete has returned and left a point tombstoned, still with its
\* payload, beside a live one
C20_OneOfTwoDeleted ==
    /\ ret.op = "delete" /\ ret.status = "ok"
    /\ Len(ids_inv) = 2
    /\ \E i, j \in DOMAIN deleted : deleted[i] /\ ~payload[i].isNone /\ ~deleted[j]

\* the record the store holds for id e, or none
StoredFor(c, e) == {c.storage.pts[i] : i \in {j \in DOMAIN c.storage.pts : c.storage.pts[j].id = e}}

\* point e has the same payload, tombstone and store record in c and c2
Untouched(c, c2, e) ==
    /\ PayloadOf(c2, e) = PayloadOf(c, e)
    /\ c2.deleted[c.ids[e] + 1] = c.deleted[c.ids[e] + 1]
    /\ StoredFor(c2, e) = StoredFor(c, e)

\* a call with selector s has acted on nothing but the live points its
\* filter accepted, and `acted` holds of each of them when it returned
ActsOnAccepted(s, acted(_)) ==
    LET sel == Selected(Coll, s) IN
    /\ ids' = ids
    /\ \A e \in DOMAIN ids \ sel : Untouched(Coll, Coll', e)
    /\ ret'.status = "ok" => \A e \in sel : acted(e)

\* point e carries payload pl in memory and in the store
Carries(c, e, pl) ==
    /\ PayloadOf(c, e) = pl
    /\ \E q \in StoredFor(c, e) : q.payload = pl

FilterSelectorsP == {FilterOf(MatchK1), FilterSelector(MatchK1)}

\* C21: delete and the four payload mutations called with a filter or a
\* filter selector act exactly on the points that the filter accepts and
\* that are not tombstoned at the time of the call: every one of them is
\* tombstoned and removed from the store, or gets and persists its new
\* payload, and no other point, in particular no tombstoned one, changes
\* its payload, its tombstone or its record in the store.
C21_FilterSelectsLivePoints ==
    [][\A s \in FilterSelectorsP :
          /\ Delete(s, 0) =>
                ActsOnAccepted(s, LAMBDA e :
                    deleted'[ids[e] + 1] /\ StoredFor(Coll', e) = {})
          /\ SetPayload(K2, s, 0) =>
                ActsOnAccepted(s, LAMBDA e :
                    Carries(Coll', e, Merge(OrEmpty(PayloadOf(Coll, e)), K2)))
          /\ OverwritePayload(K1V2, s, 0) =>
                ActsOnAccepted(s, LAMBDA e : Carries(Coll', e, K1V2))
          /\ DeletePayload(<<"k">>, s, 0) =>
                ActsOnAccepted(s, LAMBDA e :
                    Carries(Coll', e, Pop(OrEmpty(PayloadOf(Coll, e)), <<"k">>)))
          /\ ClearPayload(s, 0) =>
                ActsOnAccepted(s, LAMBDA e : Carries(Coll', e, Dict(EmptyDict)))]_vars

---------------------------------------------------------------------------
(* SpecV: the projections of a result, over well-formed points that all    *)
(* have a payload.                                                         *)

InitV == InitWith({ConfigDefault, ConfigNamed}, {TRUE})

PointsV ==
    {Point(IntId(1), K1V2, VectorFor(config, Unit(1), Unit(2))),
     Point(IntId(2), K1, VectorFor(config, Unit(2), Unit(1)))}

VectorProjections ==
    {WithBool(FALSE), WithBool(TRUE), WithList(<<FirstName>>),
     WithList([i \in DOMAIN config |-> config[i].name])}

PayloadProjections ==
    {WithBool(FALSE), WithBool(TRUE), WithList(<<>>), WithList(<<"k">>),
     WithList(<<"v", "k">>), Include(<<>>), Include(<<"v">>), Exclude(<<>>),
     Exclude(<<"k">>)}

NextV ==
    \/ \E p \in PointsV : Upsert(ListForm(<<p>>), 0)
    \/ Delete(IdList(<<IntId(1)>>), 0)
    \/ \E wv \in VectorProjections :
          Retrieve(<<IntId(2), IntId(1)>>, WithBool(TRUE), wv)
    \/ \E wp \in PayloadProjections :
          Retrieve(<<IntId(2), IntId(1)>>, wp, WithBool(FALSE))
    \/ \E wv \in VectorProjections :
          Search(QueryOf(FirstName, Unit(1)), NoFilter, MaxLimit, 0, WithBool(TRUE),
                 wv, NoThreshold)

SpecV == InitV /\ [][NextV]_vars

\* what a vector struct is: omitted, one bare array, or a map from names to
\* arrays
Shape(vector) ==
    IF vector.kind = "None" THEN [kind |-> "None"]
    ELSE [kind |-> vector.kind, map |-> VecMap(vector)]

\* the rows of point e under the given names
RowsUnder(c, e, names) == [n \in names |-> c.vectors[n].rows[c.ids[e] + 1]]

\* false: omitted; true: all configured names, the single array unwrapped
\* when the only name is ""; a list: the listed names, never unwrapped
ProjectedVector(c, e, w) ==
    IF w.kind = "bool" /\ ~w.b THEN [kind |-> "None"]
    ELSE IF w.kind = "bool"
         THEN [kind |-> IF ConfiguredNames = {DEFAULT_VECTOR_NAME} THEN "list" ELSE "dict",
               map |-> RowsUnder(c, e, ConfiguredNames)]
    ELSE [kind |-> "dict", map |-> RowsUnder(c, e, Range(w.keys))]

\* every record of the answer carries the projection w of its point's vectors
VectorsProjected(r, w) ==
    /\ r.status = "ok"
    /\ \A i \in DOMAIN r.v : Shape(r.v[i].vector) = ProjectedVector(Coll, r.v[i].id, w)

\* C22: the vectors of a result are omitted for false; for true they are the
\* map of all configured names, the single array unwrapped when the only
\* configured name is ""; for a list of names they are the map restricted to
\* the listed names, never unwrapped, also for [""] and on a collection
\* with only the default name.
C22_VectorProjection ==
    [][\A wv \in VectorProjections :
          /\ Retrieve(<<IntId(2), IntId(1)>>, WithBool(TRUE), wv) => VectorsProjected(ret', wv)
          /\ Search(QueryOf(FirstName, Unit(1)), NoFilter, MaxLimit, 0, WithBool(TRUE),
                    wv, NoThreshold) => VectorsProjected(ret', wv)]_vars

\* false: omitted; true: the payload; a key list or an include selector:
\* the listed keys that are present; an exclude selector: the other keys
ProjectedPayload(pl, w) ==
    IF w.kind = "bool" THEN (IF w.b THEN pl ELSE None)
    ELSE IF w.kind \in {"list", "include"}
         THEN Dict([key \in Keys |-> IF key \in Range(w.keys) THEN pl.d[key] ELSE Absent])
    ELSE Dict([key \in Keys |-> IF key \in Range(w.keys) THEN Absent ELSE pl.d[key]])

\* C23: the payload of a result is omitted for false and is the full payload
\* for true; for a list of keys or an include selector it is the sub-map of
\* the listed keys that are present, the empty map when none is present or
\* the list is empty; for an exclude selector it is the payload minus the
\* listed keys.
C23_PayloadProjection ==
    [][\A wp \in PayloadProjections :
          Retrieve(<<IntId(2), IntId(1)>>, wp, WithBool(FALSE)) =>
              /\ ret'.status = "ok"
              /\ \A i \in DOMAIN ret'.v :
                    ret'.v[i].payload = ProjectedPayload(PayloadOf(Coll, ret'.v[i].id), wp)]_vars

\* the live points of memory are the points of the store, and a collection
\* rebuilt from the store shows them
StoreAgrees(c) ==
    /\ StoreIds(c.storage.pts) = LiveIds(c)
    /\ LiveIds(load(config, c.storage).c) = LiveIds(c)

\* C24: delete with an explicit id list (or id-list object) that names an
\* unknown id reports an error, and after it memory and store still agree:
\* every id the call tombstoned has been removed from the store, so that a
\* collection whose live points were the points of the store before the call
\* is still one after it, and a reload shows the same live points.
C24_FailedDeleteKeepsStoreInStep ==
    [][\A s \in {x \in SelectorsB : x.kind \in {"list", "PointIdsList"}} :
          (Delete(s, 0) /\ ~(Range(s.points) \subseteq DOMAIN ids)) =>
              /\ ret'.status # "ok"
              /\ \A e \in DOMAIN ids :
                    (deleted'[ids[e] + 1] /\ ~deleted[ids[e] + 1]) =>
                        e \notin StoreIds(storage'.pts)
              /\ StoreAgrees(Coll) => StoreAgrees(Coll')]_vars

====
